---- MODULE Spec2Model ----
(***************************************************************************)
(* Red-zone intrusion monitor of yolo_camera.py: the frame loop, the zone  *)
(* filter, the two-state occupancy machine and the event logger.           *)
(*                                                                         *)
(* Units.  Raw detector coordinates are floats; they are modelled in       *)
(* 1/SubPix pixel units and int() truncates them to pixels.  Confidences   *)
(* are modelled in thousandths, the rounded confidence of a log record in  *)
(* hundredths.  Time is a count of seconds; strftime splits it into a day  *)
(* and a second-of-day.                                                    *)
(*                                                                         *)
(* The module also holds the PC camera handling of app.py's                *)
(* EnhancedCameraManager (specification SpecCam): stream generators,       *)
(* reconnection threads, the status request and the shutdown clean-up.     *)
(***************************************************************************)
EXTENDS Integers, Sequences, FiniteSets, TLC

VARIABLES
    pc,                 \* "loop" | "exit" (after break) | "done" (after cap.release) | "crashed" | "filter" | "filtered"
    results,            \* detector output of the last evaluated frame
    nframes,            \* number of frames the detector has been run on
    run,                \* history: [n, base, from] the current run of n consecutive frames with a
                        \* non-empty qualifying set, the log length and the state it started from
    alert_active,       \* occupancy state: TRUE = OCCUPIED, FALSE = EMPTY
    object_in_zone,     \* len(detections_in_zone) > 0 of the last evaluated frame
    cleared_printed,
    detections_in_zone, \* qualifying detections of the last evaluated frame
    center,             \* <<cx, cy>> of the last box that cleared the threshold, <<>> before any
    log,                \* lines of yolo_redzone_log.txt
    snapshots,          \* cv2.imwrite calls, in order: [name, ok]
    console,            \* printed lines, in order: [tag, snap]
    now,                \* the clock read by datetime.now()
    cap_released,       \* number of cap.release() calls
    ref,                \* history: the reference two-state machine run on the same frames
    camera_manager,     \* app.py: [pc_camera, mock_camera_active, last_reconnect_attempt]
    threads,            \* app.py: per thread [pc, current_time, cap, wake, success]
    handles,            \* app.py: the cv2.VideoCapture objects stored so far: [released, read_after_release]
    clock,              \* app.py: time.time()
    attempts,           \* app.py, history: current_time of every reconnection attempt started
    pc_status,          \* app.py: the last pc_status computed by /api/cameras/status
    shutdown            \* app.py: "running" | "cleaned" (cleanup_resources in a handler) | "exited" (atexit)

loopvars == <<pc, results, nframes, run, alert_active, object_in_zone, cleared_printed,
              detections_in_zone, center, log, snapshots, console, now, cap_released, ref>>

camvars == <<camera_manager, threads, handles, clock, attempts, pc_status, shutdown>>

vars == <<loopvars, camvars>>

----------------------------------------------------------------------------
(* Bounds of the model *)

MaxFrames == 3

MaxDet == 1

MaxTicks == 1

SubPix == 2

----------------------------------------------------------------------------
(* Configuration: yolo_camera.py lines 9-10 *)

CONFIDENCE_THRESHOLD == 600

RED_ZONE == [x1 |-> 200, y1 |-> 150, x2 |-> 450, y2 |-> 350]

DaySecs == 86400

\* the run starts one second before midnight
StartTime == DaySecs - 1

ENTERED == "Object ENTERED red zone"

LEFT == "Object LEFT red zone"

\* model.names: class index -> label
Names == [k \in {0, 8} |-> IF k = 0 THEN "person" ELSE "boat"]

----------------------------------------------------------------------------
(* Conversions *)

\* int(v) of a float: truncation toward zero (v in 1/SubPix pixels)
IntOf(v) == IF v >= 0 THEN v \div SubPix ELSE -((-v) \div SubPix)

\* a / 2 rounded toward zero (not what the code computes)
TruncDiv2(a) == IF a >= 0 THEN a \div 2 ELSE -((-a) \div 2)

\* a // 2 of Python: floor division
FloorDiv2(a) == a \div 2

\* round(conf, 2): thousandths to the nearest hundredth (inputs avoid ties)
Round2(c) == (c + 5) \div 10

\* t.strftime("%Y-%m-%d %H:%M:%S")
StrfFull(t) == <<t \div DaySecs, t % DaySecs>>

\* t.strftime('%H%M%S')
StrfHMS(t) == t % DaySecs

----------------------------------------------------------------------------
(* Zone filter: the body of "for box in r.boxes" and the loop around it *)

Coords(box) == <<IntOf(box.xyxy[1]), IntOf(box.xyxy[2]), IntOf(box.xyxy[3]), IntOf(box.xyxy[4])>>

\* mutant: a detection exactly at the threshold is discarded too
BelowOrAtThreshold(conf) == conf <= CONFIDENCE_THRESHOLD

BelowThreshold(conf) == conf < CONFIDENCE_THRESHOLD

Center(c) == <<FloorDiv2(c[1] + c[3]), FloorDiv2(c[2] + c[4])>>

\* mutant: the zone's border is excluded
InsideZoneStrict(cx, cy) ==
    /\ RED_ZONE.x1 < cx /\ cx < RED_ZONE.x2
    /\ RED_ZONE.y1 < cy /\ cy < RED_ZONE.y2

\* mutant: the zone's right and bottom edges are excluded
InsideZoneHalfOpen(cx, cy) ==
    /\ RED_ZONE.x1 <= cx /\ cx < RED_ZONE.x2
    /\ RED_ZONE.y1 <= cy /\ cy < RED_ZONE.y2

InsideZone(cx, cy) ==
    /\ RED_ZONE.x1 <= cx /\ cx <= RED_ZONE.x2
    /\ RED_ZONE.y1 <= cy /\ cy <= RED_ZONE.y2

Detection(box, t) ==
    [name |-> Names[box.cls], confidence |-> Round2(box.conf),
     timestamp |-> StrfFull(t), coords |-> Coords(box)]

\* one pass of the inner loop body; acc = [dets, center]
FilterBox(acc, box, t) ==
    IF BelowThreshold(box.conf)
    THEN acc
    ELSE LET c == Center(Coords(box))
         IN  [center |-> c,
              dets   |-> IF InsideZone(c[1], c[2])
                         THEN Append(acc.dets, Detection(box, t))
                         ELSE acc.dets]

RECURSIVE FilterFrom(_, _, _, _)
FilterFrom(acc, res, i, t) ==
    IF i > Len(res) THEN acc
    ELSE FilterFrom(FilterBox(acc, res[i], t), res, i + 1, t)

\* mutant: detections_in_zone is not emptied before the loops
ZoneFilterCarry(res, t, c0) ==
    FilterFrom([center |-> c0, dets |-> detections_in_zone], res, 1, t)

\* detections_in_zone = [] followed by the loops over results
ZoneFilter(res, t, c0) == FilterFrom([center |-> c0, dets |-> <<>>], res, 1, t)

----------------------------------------------------------------------------
(* Event records *)

\* mutant: the objects are listed last detection first
ObjectsReversed(dets) ==
    [i \in 1..Len(dets) |->
        [name |-> dets[Len(dets) + 1 - i].name,
         confidence |-> dets[Len(dets) + 1 - i].confidence,
         coords |-> dets[Len(dets) + 1 - i].coords]]

Objects(dets) ==
    [i \in 1..Len(dets) |->
        [name |-> dets[i].name, confidence |-> dets[i].confidence, coords |-> dets[i].coords]]

EnterRecord(t, dets) == [event |-> ENTERED, timestamp |-> StrfFull(t), objects |-> Objects(dets)]

\* mutant: the exit record carries the entry tag
ExitRecordMislabelled(t) == [event |-> ENTERED, timestamp |-> StrfFull(t)]

\* mutant: the exit record carries the detections of the previous frame
ExitRecordWithObjects(t) ==
    [event |-> LEFT, timestamp |-> StrfFull(t), objects |-> Objects(detections_in_zone)]

ExitRecord(t) == [event |-> LEFT, timestamp |-> StrfFull(t)]

\* mutant: the file name is taken from a later reading of the clock
SnapNameLate(t) == StrfHMS(t + 1)

SnapName(t) == StrfHMS(t)

----------------------------------------------------------------------------
(* Inputs of the frame loop *)

Box(x1, y1, x2, y2, c, k) == [xyxy |-> <<x1, y1, x2, y2>>, conf |-> c, cls |-> k]

\* a person in the zone exactly at the threshold, a boat centred on the zone's corner
\* (200,150), a box in the zone just below the threshold, and a confident box outside
PersonIn == Box(300 * SubPix, 200 * SubPix, 350 * SubPix, 250 * SubPix, 600, 0)

BoatCorner == Box(150 * SubPix, 100 * SubPix, 250 * SubPix + 1, 200 * SubPix, 873, 8)

FaintIn == Box(300 * SubPix, 200 * SubPix, 350 * SubPix, 250 * SubPix, 599, 0)

PersonOut == Box(10 * SubPix, 20 * SubPix, 60 * SubPix, 90 * SubPix, 904, 0)

LoopBoxes == {PersonIn, BoatCorner, FaintIn, PersonOut}

SeqsUpTo(S, n) == UNION { [1..k -> S] : k \in 0..n }

\* detector outputs: every list of at most MaxDet boxes, and two lists of two boxes
LoopFrames == SeqsUpTo(LoopBoxes, MaxDet) \cup {<<BoatCorner, PersonIn>>, <<FaintIn, BoatCorner>>}

----------------------------------------------------------------------------
(* Camera manager of app.py: its state *)

reconnect_interval == 30

\* bounds: concurrent /video_feed/pc requests, reconnection threads they may spawn,
\* VideoCapture objects ever stored, seconds the clock may advance
NumStreams == 2

MaxDaemons == 1

MaxHandles == 2

MaxElapsed == 32

None == 0

Streams == 1..NumStreams

Daemons == (NumStreams + 1)..(NumStreams + MaxDaemons)

Threads == Streams \cup Daemons

\* time.time() when the server starts: last_reconnect_attempt = 0 is at least
\* reconnect_interval in the past
StartClock == reconnect_interval

NewHandle == [released |-> 0, read_after_release |-> FALSE]

Locals(loc) == [pc |-> loc, current_time |-> 0, cap |-> None, wake |-> 0, success |-> FALSE]

\* __init__ up to line 69, no camera opened and no request served: app.py is not running
CamIdle ==
    /\ camera_manager = [pc_camera |-> None, mock_camera_active |-> FALSE, last_reconnect_attempt |-> 0]
    /\ threads = [t \in Threads |-> Locals("unborn")]
    /\ handles = <<>>
    /\ clock = StartClock
    /\ attempts = <<>>
    /\ pc_status = "none"
    /\ shutdown = "running"

----------------------------------------------------------------------------
(* The frame loop *)

LoopInit ==
    /\ pc = "loop"
    /\ results = <<>>
    /\ nframes = 0
    /\ run = [n |-> 0, base |-> 0, from |-> FALSE]
    /\ alert_active = FALSE
    /\ object_in_zone = FALSE
    /\ cleared_printed = TRUE
    /\ detections_in_zone = <<>>
    /\ center = <<>>
    /\ log = <<>>
    /\ snapshots = <<>>
    /\ console = <<>>
    /\ now = StartTime
    /\ cap_released = 0
    /\ ref = [state |-> "EMPTY", events |-> <<>>, pure |-> [state |-> "EMPTY", trace |-> <<>>]]

Init == LoopInit /\ CamIdle

Line(tag, snap) == [tag |-> tag, snap |-> snap]

\* what the interpreter prints when an exception reaches the top level
TracebackDetect == "Traceback: model(frame, verbose=False)"

TracebackLog == "Traceback: open/write yolo_redzone_log.txt"

SnapshotSaved == "[ALERT] Object entered red zone! Snapshot saved"

Cleared == "[CLEARED] Object left red zone."

\* the clock readings an iteration can see
Clock == { t \in now..(now + 1) : t <= StartTime + MaxTicks }

\* mutant: the failed read is reported but the loop goes on
ReadFailNoBreak ==
    /\ pc = "loop"
    /\ ~(\E i \in 1..Len(console) : console[i].tag = "Failed to capture frame.")
    /\ console' = Append(console, Line("Failed to capture frame.", -1))
    /\ pc' = "loop"
    /\ UNCHANGED <<results, nframes, run, alert_active, object_in_zone, cleared_printed,
                   detections_in_zone, center, log, snapshots, now, cap_released, ref>>
    /\ UNCHANGED camvars

\* ret is False: print and break
ReadFail ==
    /\ pc = "loop"
    /\ console' = Append(console, Line("Failed to capture frame.", -1))
    /\ pc' = "exit"
    /\ UNCHANGED <<results, nframes, run, alert_active, object_in_zone, cleared_printed,
                   detections_in_zone, center, log, snapshots, now, cap_released, ref>>
    /\ UNCHANGED camvars

\* model(frame) raises: nothing catches it, the script dies before any assignment and the
\* interpreter prints the traceback
DetectFail ==
    /\ pc = "loop"
    /\ nframes < MaxFrames
    /\ pc' = "crashed"
    /\ console' = Append(console, Line(TracebackDetect, -1))
    /\ UNCHANGED <<results, nframes, run, alert_active, object_in_zone, cleared_printed,
                   detections_in_zone, center, log, snapshots, now, cap_released, ref>>
    /\ UNCHANGED camvars

\* mutant: the entry branch forgets to latch alert_active
EnterBranchNoLatch(t, dets, logOK, snapOK) ==
    /\ alert_active' = alert_active
    /\ cleared_printed' = FALSE
    /\ IF logOK
       THEN /\ log' = Append(log, EnterRecord(t, dets))
            /\ snapshots' = Append(snapshots, [name |-> SnapName(t), ok |-> snapOK])
            /\ console' = Append(console, Line(SnapshotSaved, SnapName(t)))
       ELSE /\ console' = Append(console, Line(TracebackLog, -1))
            /\ UNCHANGED <<log, snapshots>>

\* mutant: cv2.imwrite is called before the log is opened
EnterBranchSnapBeforeLog(t, dets, logOK, snapOK) ==
    /\ alert_active' = TRUE
    /\ cleared_printed' = FALSE
    /\ snapshots' = Append(snapshots, [name |-> SnapName(t), ok |-> snapOK])
    /\ IF logOK
       THEN /\ log' = Append(log, EnterRecord(t, dets))
            /\ console' = Append(console, Line(SnapshotSaved, SnapName(t)))
       ELSE /\ console' = Append(console, Line(TracebackLog, -1))
            /\ UNCHANGED log

\* mutant: the snapshot is taken first and the line is logged only if it was saved
EnterBranchSnapFirst(t, dets, logOK, snapOK) ==
    /\ alert_active' = TRUE
    /\ cleared_printed' = FALSE
    /\ IF logOK
       THEN /\ snapshots' = Append(snapshots, [name |-> SnapName(t), ok |-> snapOK])
            /\ log' = IF snapOK THEN Append(log, EnterRecord(t, dets)) ELSE log
            /\ console' = Append(console, Line(SnapshotSaved, SnapName(t)))
       ELSE /\ console' = Append(console, Line(TracebackLog, -1))
            /\ UNCHANGED <<log, snapshots>>

\* the entry branch: object_in_zone and not alert_active
EnterBranch(t, dets, logOK, snapOK) ==
    /\ alert_active' = TRUE
    /\ cleared_printed' = FALSE
    /\ IF logOK
       THEN /\ log' = Append(log, EnterRecord(t, dets))
            /\ snapshots' = Append(snapshots, [name |-> SnapName(t), ok |-> snapOK])
            /\ console' = Append(console, Line(SnapshotSaved, SnapName(t)))
       ELSE /\ console' = Append(console, Line(TracebackLog, -1))
            /\ UNCHANGED <<log, snapshots>>

\* mutant: the exit branch forgets to clear alert_active
ExitBranchNoClear(t, logOK) ==
    /\ IF logOK
       THEN /\ log' = Append(log, ExitRecord(t))
            /\ console' = Append(console, Line(Cleared, -1))
            /\ alert_active' = alert_active
       ELSE /\ console' = Append(console, Line(TracebackLog, -1))
            /\ UNCHANGED <<log, alert_active>>
    /\ UNCHANGED <<cleared_printed, snapshots>>

\* mutant: the log file is opened with "w" in the exit branch
ExitBranchTruncates(t, logOK) ==
    /\ IF logOK
       THEN /\ log' = <<ExitRecord(t)>>
            /\ console' = Append(console, Line(Cleared, -1))
            /\ alert_active' = FALSE
       ELSE /\ console' = Append(console, Line(TracebackLog, -1))
            /\ UNCHANGED <<log, alert_active>>
    /\ UNCHANGED <<cleared_printed, snapshots>>

\* the exit branch: not object_in_zone and alert_active
ExitBranch(t, logOK) ==
    /\ IF logOK
       THEN /\ log' = Append(log, ExitRecord(t))
            /\ console' = Append(console, Line(Cleared, -1))
            /\ alert_active' = FALSE
       ELSE /\ console' = Append(console, Line(TracebackLog, -1))
            /\ UNCHANGED <<log, alert_active>>
    /\ UNCHANGED <<cleared_printed, snapshots>>

\* mutant: a frame with an object while alert_active closes the period and opens a new one
TransitionReenter(f, t, logOK, snapOK) ==
    /\ object_in_zone' = (Len(f.dets) > 0)
    /\ IF Len(f.dets) > 0
       THEN IF ~alert_active
            THEN EnterBranch(t, f.dets, logOK, snapOK)
            ELSE /\ log' = Append(Append(log, ExitRecord(t)), EnterRecord(t, f.dets))
                 /\ UNCHANGED <<alert_active, cleared_printed, snapshots, console>>
       ELSE IF alert_active
            THEN ExitBranch(t, logOK)
            ELSE UNCHANGED <<alert_active, cleared_printed, log, snapshots, console>>

\* mutant: the branches test the previous frame's object_in_zone
TransitionStale(f, t, logOK, snapOK) ==
    /\ object_in_zone' = (Len(f.dets) > 0)
    /\ IF object_in_zone
       THEN IF ~alert_active
            THEN EnterBranch(t, f.dets, logOK, snapOK)
            ELSE UNCHANGED <<alert_active, cleared_printed, log, snapshots, console>>
       ELSE IF alert_active
            THEN ExitBranch(t, logOK)
            ELSE UNCHANGED <<alert_active, cleared_printed, log, snapshots, console>>

\* mutant: the exit branch is taken on every empty frame, without testing alert_active
TransitionExitUnguarded(f, t, logOK, snapOK) ==
    /\ object_in_zone' = (Len(f.dets) > 0)
    /\ IF Len(f.dets) > 0
       THEN IF ~alert_active
            THEN EnterBranch(t, f.dets, logOK, snapOK)
            ELSE UNCHANGED <<alert_active, cleared_printed, log, snapshots, console>>
       ELSE ExitBranch(t, logOK)

\* mutant: the entry branch is taken on every occupied frame, without testing alert_active
TransitionNoHysteresis(f, t, logOK, snapOK) ==
    /\ object_in_zone' = (Len(f.dets) > 0)
    /\ IF Len(f.dets) > 0
       THEN EnterBranch(t, f.dets, logOK, snapOK)
       ELSE IF alert_active
            THEN ExitBranch(t, logOK)
            ELSE UNCHANGED <<alert_active, cleared_printed, log, snapshots, console>>

\* the state machine and the logger: lines 98-139, on the filter's result f
Transition(f, t, logOK, snapOK) ==
    /\ object_in_zone' = (Len(f.dets) > 0)
    /\ IF Len(f.dets) > 0
       THEN IF ~alert_active
            THEN EnterBranch(t, f.dets, logOK, snapOK)
            ELSE UNCHANGED <<alert_active, cleared_printed, log, snapshots, console>>
       ELSE IF alert_active
            THEN ExitBranch(t, logOK)
            ELSE UNCHANGED <<alert_active, cleared_printed, log, snapshots, console>>

\* the reference machine of the design: four rows, one per state and input
RefStep(r, nonEmpty) ==
    IF r.state = "EMPTY"
    THEN IF nonEmpty THEN [state |-> "OCCUPIED", events |-> Append(r.events, "ENTER")] ELSE r
    ELSE IF nonEmpty THEN r ELSE [state |-> "EMPTY", events |-> Append(r.events, "LEAVE")]

\* the objects a detector output calls for, computed from the boxes alone
Classify(res) ==
    LET RECURSIVE From(_)
        From(i) ==
            IF i > Len(res) THEN <<>>
            ELSE IF res[i].conf >= CONFIDENCE_THRESHOLD
                    /\ InsideZone(Center(Coords(res[i]))[1], Center(Coords(res[i]))[2])
                 THEN <<[name |-> Names[res[i].cls], confidence |-> Round2(res[i].conf),
                         coords |-> Coords(res[i])]>> \o From(i + 1)
                 ELSE From(i + 1)
    IN  From(1)

\* history: the events the detector outputs taken so far call for, folded from the
\* detector outputs alone (no clock, no log, no program variable)
PureStep(p, res) ==
    LET q == Classify(res)
    IN  IF p.state = "EMPTY" /\ Len(q) > 0
        THEN [state |-> "OCCUPIED", trace |-> Append(p.trace, [kind |-> "ENTER", objects |-> q])]
        ELSE IF p.state = "OCCUPIED" /\ Len(q) = 0
        THEN [state |-> "EMPTY", trace |-> Append(p.trace, [kind |-> "LEAVE", objects |-> <<>>])]
        ELSE p

\* history of the current run of frames with a non-empty qualifying set
RunAfter(f) ==
    IF Len(f.dets) = 0 THEN [n |-> 0, base |-> 0, from |-> FALSE]
    ELSE IF run.n = 0 THEN [n |-> 1, base |-> Len(log), from |-> alert_active]
    ELSE [run EXCEPT !.n = @ + 1]

\* mutant: the quit key is looked at before the entry/exit logic and breaks out at once
IterateStopFirst(res, f, t, key, logOK, snapOK) ==
    /\ pc = "loop"
    /\ nframes < MaxFrames
    /\ results' = res
    /\ nframes' = nframes + 1
    /\ now' = t
    /\ detections_in_zone' = f.dets
    /\ center' = f.center
    /\ run' = RunAfter(f)
    /\ ref' = [state  |-> RefStep(ref, Len(f.dets) > 0).state,
               events |-> RefStep(ref, Len(f.dets) > 0).events,
               pure   |-> PureStep(ref.pure, res)]
    /\ IF key = "q"
       THEN UNCHANGED <<object_in_zone, alert_active, cleared_printed, log, snapshots, console>>
       ELSE Transition(f, t, logOK, snapOK)
    /\ pc' = IF key = "q" THEN "exit" ELSE IF ~logOK THEN "crashed" ELSE "loop"
    /\ UNCHANGED cap_released
    /\ UNCHANGED camvars

\* one iteration with a frame: detect, filter, transition, log, quit key
Iterate(res, f, t, key, logOK, snapOK) ==
    /\ pc = "loop"
    /\ nframes < MaxFrames
    /\ results' = res
    /\ nframes' = nframes + 1
    /\ now' = t
    /\ detections_in_zone' = f.dets
    /\ center' = f.center
    /\ run' = RunAfter(f)
    /\ ref' = [state  |-> RefStep(ref, Len(f.dets) > 0).state,
               events |-> RefStep(ref, Len(f.dets) > 0).events,
               pure   |-> PureStep(ref.pure, res)]
    /\ Transition(f, t, logOK, snapOK)
    /\ pc' = IF ~logOK THEN "crashed" ELSE IF key = "q" THEN "exit" ELSE "loop"
    /\ UNCHANGED cap_released
    /\ UNCHANGED camvars

\* a frame arrives; the log append and the snapshot write may fail, and 'q' may be pressed
Frame ==
    /\ pc = "loop"
    /\ \E res \in LoopFrames, t \in Clock :
        \E f \in {ZoneFilter(res, t, center)} :
            \E logOK \in (IF (Len(f.dets) > 0) # alert_active THEN BOOLEAN ELSE {TRUE}) :
                \E snapOK \in (IF Len(f.dets) > 0 /\ ~alert_active /\ logOK THEN BOOLEAN ELSE {TRUE}),
                   key \in (IF logOK THEN {"q", "none"} ELSE {"none"}) :
                    Iterate(res, f, t, key, logOK, snapOK)

\* mutant: the script ends after the loop without releasing the camera
ReleaseSkipped ==
    /\ pc = "exit"
    /\ pc' = "done"
    /\ UNCHANGED <<results, nframes, run, alert_active, object_in_zone, cleared_printed,
                   detections_in_zone, center, log, snapshots, console, now, cap_released, ref>>
    /\ UNCHANGED camvars

\* mutant: a closing LEAVE line is written when the loop ends while alert_active
ReleaseFlush ==
    /\ pc = "exit"
    /\ cap_released' = cap_released + 1
    /\ pc' = "done"
    /\ log' = IF alert_active THEN Append(log, ExitRecord(now)) ELSE log
    /\ UNCHANGED <<results, nframes, run, alert_active, object_in_zone, cleared_printed,
                   detections_in_zone, center, snapshots, console, now, ref>>
    /\ UNCHANGED camvars

\* cap.release() after the loop
Release ==
    /\ pc = "exit"
    /\ cap_released' = cap_released + 1
    /\ pc' = "done"
    /\ UNCHANGED <<results, nframes, run, alert_active, object_in_zone, cleared_printed,
                   detections_in_zone, center, log, snapshots, console, now, ref>>
    /\ UNCHANGED camvars

Next == ReadFail \/ DetectFail \/ Frame \/ Release

Spec == Init /\ [][Next]_vars

\* after a break the statement that follows the loop is executed; nothing is assumed of
\* the camera, the detector or the keyboard
SpecFair == Init /\ [][Next]_vars /\ WF_vars(Release)

----------------------------------------------------------------------------
(* The zone filter alone, on a wide range of single boxes *)

Raw(P) == { p * SubPix + o : p \in P, o \in 0..1 }

WideConf == {400, 599, 600, 904}

\* pixel coordinates whose midpoints fall on 199, 200, 225, 450, 451 (x) and
\* 149, 150, 175, 350, 351 (y), and below zero
WideBoxes ==
    { Box(x1, y1, x2, y2, c, 0) :
        x1 \in Raw({-3, 150, 200}), y1 \in Raw({-3, 100, 150}),
        x2 \in Raw({0, 249, 250, 700, 702}), y2 \in Raw({0, 199, 200, 550, 552}),
        c \in WideConf }

InitFilter ==
    /\ pc = "filter"
    /\ results \in { <<b>> : b \in { w \in WideBoxes : w.xyxy[1] < w.xyxy[3] /\ w.xyxy[2] < w.xyxy[4] } }
    /\ nframes = 0
    /\ run = [n |-> 0, base |-> 0, from |-> FALSE]
    /\ alert_active = FALSE
    /\ object_in_zone = FALSE
    /\ cleared_printed = TRUE
    /\ detections_in_zone = <<>>
    /\ center = <<>>
    /\ log = <<>>
    /\ snapshots = <<>>
    /\ console = <<>>
    /\ now = StartTime
    /\ cap_released = 0
    /\ ref = [state |-> "EMPTY", events |-> <<>>, pure |-> [state |-> "EMPTY", trace |-> <<>>]]
    /\ CamIdle

\* lines 60-98 on the detector output
FilterStep ==
    /\ pc = "filter"
    /\ \E f \in {ZoneFilter(results, now, center)} :
        /\ detections_in_zone' = f.dets
        /\ center' = f.center
        /\ object_in_zone' = (Len(f.dets) > 0)
    /\ pc' = "filtered"
    /\ UNCHANGED <<results, nframes, run, alert_active, cleared_printed, log, snapshots,
                   console, now, cap_released, ref>>
    /\ UNCHANGED camvars

NextFilter == FilterStep

SpecFilter == InitFilter /\ [][NextFilter]_vars

----------------------------------------------------------------------------
(* Camera manager of app.py: stream generators, reconnection, status, shutdown.   *)
(* Each action is one statement or one call on the shared state; the threads of   *)
(* the Flask server (threaded=True) and the daemon threads interleave between     *)
(* them.  No lock is taken anywhere in the class.                                 *)

\* init_cameras_with_fallbacks: a camera was opened and stored, or all strategies
\* failed and the simulated camera is active; then requests are served
InitCam ==
    /\ LoopInit
    /\ \E real \in BOOLEAN :
        /\ camera_manager = [pc_camera |-> IF real THEN 1 ELSE None,
                             mock_camera_active |-> ~real,
                             last_reconnect_attempt |-> 0]
        /\ handles = IF real THEN <<NewHandle>> ELSE <<>>
    /\ threads = [t \in Threads |-> IF t \in Streams THEN Locals("frame") ELSE Locals("unborn")]
    /\ clock = StartClock
    /\ attempts = <<>>
    /\ pc_status = "none"
    /\ shutdown = "running"

Serving == shutdown = "running"

At(t, loc) == Serving /\ threads[t].pc = loc

Goto(t, loc) == threads' = [threads EXCEPT ![t].pc = loc]

\* attempt_camera_reconnection returns: a generator goes on with its loop, a daemon
\* thread ends
Return(t) == IF t \in Streams THEN Locals("frame") ELSE Locals("dead")

\* get_pc_camera_frame, the test of line 285 (else the mock frame or the placeholder)
GetFrame(t) ==
    /\ t \in Streams /\ At(t, "frame")
    /\ IF camera_manager.pc_camera # None THEN Goto(t, "fetch") ELSE UNCHANGED threads
    /\ UNCHANGED <<camera_manager, handles, clock, attempts, pc_status, shutdown>>
    /\ UNCHANGED loopvars

\* line 287, self.cameras['pc_camera']: the handle is looked up again; None has no
\* read(), the AttributeError is caught at line 296 and line 299 calls the reconnection
Fetch(t) ==
    /\ At(t, "fetch")
    /\ IF camera_manager.pc_camera = None
       THEN Goto(t, "rc_check")
       ELSE threads' = [threads EXCEPT ![t].pc = "read", ![t].cap = camera_manager.pc_camera]
    /\ UNCHANGED <<camera_manager, handles, clock, attempts, pc_status, shutdown>>
    /\ UNCHANGED loopvars

\* line 287, .read() on the handle looked up; a released VideoCapture returns ret False;
\* lines 288-290 call the reconnection when ret is False
Read(t) ==
    /\ At(t, "read")
    /\ LET h == threads[t].cap
       IN  IF handles[h].released > 0
           THEN /\ handles' = [handles EXCEPT ![h].read_after_release = TRUE]
                /\ threads' = [threads EXCEPT ![t] = Locals("rc_check")]
           ELSE /\ UNCHANGED handles
                /\ \E ret \in BOOLEAN :
                      threads' = [threads EXCEPT ![t] = Locals(IF ret THEN "frame" ELSE "rc_check")]
    /\ UNCHANGED <<camera_manager, clock, attempts, pc_status, shutdown>>
    /\ UNCHANGED loopvars

\* lines 525-526: in simulated mode, on a thousandth frame, a daemon thread is started
\* on attempt_camera_reconnection
SpawnReconnect(t) ==
    /\ t \in Streams /\ At(t, "frame")
    /\ camera_manager.mock_camera_active
    /\ \E d \in Daemons :
        /\ threads[d].pc = "unborn"
        /\ Goto(d, "rc_check")
    /\ UNCHANGED <<camera_manager, handles, clock, attempts, pc_status, shutdown>>
    /\ UNCHANGED loopvars

\* lines 374-378: current_time = time.time() and the rate limit test
RcCheck(t) ==
    /\ At(t, "rc_check")
    /\ IF clock - camera_manager.last_reconnect_attempt < reconnect_interval
       THEN threads' = [threads EXCEPT ![t] = Return(t)]
       ELSE threads' = [threads EXCEPT ![t].pc = "rc_stamp", ![t].current_time = clock]
    /\ UNCHANGED <<camera_manager, handles, clock, attempts, pc_status, shutdown>>
    /\ UNCHANGED loopvars

\* lines 380-381: last_reconnect_attempt = current_time; the attempt has started
RcStamp(t) ==
    /\ At(t, "rc_stamp")
    /\ camera_manager' = [camera_manager EXCEPT !.last_reconnect_attempt = threads[t].current_time]
    /\ attempts' = Append(attempts, threads[t].current_time)
    /\ Goto(t, "rc_release")
    /\ UNCHANGED <<handles, clock, pc_status, shutdown>>
    /\ UNCHANGED loopvars

\* lines 383-384: if a handle is stored, release() is called on it; otherwise line 388
RcRelease(t) ==
    /\ At(t, "rc_release")
    /\ LET h == camera_manager.pc_camera
       IN  IF h # None
           THEN /\ handles' = [handles EXCEPT ![h].released = @ + 1]
                /\ Goto(t, "rc_none")
           ELSE /\ UNCHANGED handles
                /\ threads' = [threads EXCEPT ![t].pc = "rc_try", ![t].wake = clock + 2]
    /\ UNCHANGED <<camera_manager, clock, attempts, pc_status, shutdown>>
    /\ UNCHANGED loopvars

\* line 385, self.cameras['pc_camera'] = None, and the start of time.sleep(2)
RcNone(t) ==
    /\ At(t, "rc_none")
    /\ camera_manager' = [camera_manager EXCEPT !.pc_camera = None]
    /\ threads' = [threads EXCEPT ![t].pc = "rc_try", ![t].wake = clock + 2]
    /\ UNCHANGED <<handles, clock, attempts, pc_status, shutdown>>
    /\ UNCHANGED loopvars

\* lines 388-393 and try_camera_with_index: after the sleep a camera is opened, read once
\* and stored in cameras['pc_camera'] (line 251), or both indexes fail
RcTry(t) ==
    /\ At(t, "rc_try")
    /\ clock >= threads[t].wake
    /\ \E opened \in (IF Len(handles) < MaxHandles THEN BOOLEAN ELSE {FALSE}) :
        IF opened
        THEN /\ handles' = Append(handles, NewHandle)
             /\ camera_manager' = [camera_manager EXCEPT !.pc_camera = Len(handles) + 1]
             /\ threads' = [threads EXCEPT ![t].pc = "rc_flag", ![t].success = TRUE]
        ELSE /\ UNCHANGED <<handles, camera_manager>>
             /\ threads' = [threads EXCEPT ![t].pc = "rc_flag", ![t].success = FALSE]
    /\ UNCHANGED <<clock, attempts, pc_status, shutdown>>
    /\ UNCHANGED loopvars

\* lines 395-400: mock_camera_active = not success, and the return
RcFlag(t) ==
    /\ At(t, "rc_flag")
    /\ camera_manager' = [camera_manager EXCEPT !.mock_camera_active = ~threads[t].success]
    /\ threads' = [threads EXCEPT ![t] = Return(t)]
    /\ UNCHANGED <<handles, clock, attempts, pc_status, shutdown>>
    /\ UNCHANGED loopvars

\* api_all_cameras_status, lines 1058-1060
Status ==
    /\ Serving
    /\ pc_status' = IF camera_manager.pc_camera # None THEN "online"
                    ELSE IF camera_manager.mock_camera_active THEN "mock" ELSE "offline"
    /\ UNCHANGED <<camera_manager, threads, handles, clock, attempts, shutdown>>
    /\ UNCHANGED loopvars

\* the instants at which something changes for a thread: the end of a time.sleep(2)
\* and the end of the rate limit window
Instants ==
    { threads[t].wake : t \in { u \in Threads : threads[u].pc = "rc_try" } }
        \cup { camera_manager.last_reconnect_attempt + reconnect_interval }

\* time passes, up to the next such instant
Tick ==
    /\ Serving
    /\ \E i \in Instants :
        /\ clock < i /\ i <= StartClock + MaxElapsed
        /\ clock' = i
    /\ UNCHANGED <<camera_manager, threads, handles, attempts, pc_status, shutdown>>
    /\ UNCHANGED loopvars

\* release_cameras, lines 580-586: release() on the stored handle, which stays stored
ReleaseCameras ==
    LET h == camera_manager.pc_camera
    IN  handles' = IF h # None THEN [handles EXCEPT ![h].released = @ + 1] ELSE handles

\* cleanup_resources called by an except clause of the entry point, lines 1263-1269
CleanupInHandler ==
    /\ shutdown = "running"
    /\ ReleaseCameras
    /\ shutdown' = "cleaned"
    /\ UNCHANGED <<camera_manager, threads, clock, attempts, pc_status>>
    /\ UNCHANGED loopvars

\* cleanup_resources called at interpreter exit, line 1209
CleanupAtExit ==
    /\ shutdown \in {"running", "cleaned"}
    /\ ReleaseCameras
    /\ shutdown' = "exited"
    /\ UNCHANGED <<camera_manager, threads, clock, attempts, pc_status>>
    /\ UNCHANGED loopvars

Stream(t) == GetFrame(t) \/ Fetch(t) \/ Read(t) \/ SpawnReconnect(t)

Reconnection(t) == RcCheck(t) \/ RcStamp(t) \/ RcRelease(t) \/ RcNone(t) \/ RcTry(t) \/ RcFlag(t)

NextCam ==
    \/ \E t \in Threads : Stream(t) \/ Reconnection(t)
    \/ Status
    \/ Tick
    \/ CleanupInHandler
    \/ CleanupAtExit

SpecCam == InitCam /\ [][NextCam]_vars

----------------------------------------------------------------------------
(* Vocabulary of the properties *)

\* the loop is running or has left through break: every frame taken was fully evaluated
\* (an uncaught exception ends the script in the middle of an iteration: pc = "crashed")
AtBoundary == pc \in {"loop", "exit", "done"}

Kind(line) == IF line.event = ENTERED THEN "ENTER" ELSE "LEAVE"

Events == [i \in 1..Len(log) |-> Kind(log[i])]

CountOf(k) == Cardinality({ i \in 1..Len(log) : Kind(log[i]) = k })

\* a box of the detector output is a qualifying detection
Qualifies(box) ==
    /\ box.conf >= CONFIDENCE_THRESHOLD
    /\ LET c == Coords(box)
           cx == (c[1] + c[3]) \div 2
           cy == (c[2] + c[4]) \div 2
       IN  RED_ZONE.x1 <= cx /\ cx <= RED_ZONE.x2 /\ RED_ZONE.y1 <= cy /\ cy <= RED_ZONE.y2

FrameQualifies(res) == \E i \in 1..Len(res) : Qualifies(res[i])

\* the step evaluates a frame
FrameStep == nframes' = nframes + 1

ReadFailed == \E i \in 1..Len(console) : console[i].tag = "Failed to capture frame."

----------------------------------------------------------------------------
(* Occupancy state machine *)

\* C1: the events in the log strictly alternate ENTER, LEAVE, ENTER, ... starting with
\* ENTER: the i-th event is ENTER for odd i and LEAVE for even i.
C1_Alternation ==
    \A i \in 1..Len(log) : Kind(log[i]) = (IF i % 2 = 1 THEN "ENTER" ELSE "LEAVE")

C1_Witness == Len(log) = 3 /\ Events = <<"ENTER", "LEAVE", "ENTER">>

\* C2: the number of ENTER events equals the number of LEAVE events or exceeds it by
\* exactly one, and at every iteration boundary it exceeds it by one exactly when
\* alert_active is OCCUPIED.
C2_Balance ==
    /\ CountOf("ENTER") - CountOf("LEAVE") \in {0, 1}
    /\ AtBoundary => ((CountOf("ENTER") = CountOf("LEAVE") + 1) <=> alert_active)

C2_Witness == AtBoundary /\ alert_active /\ CountOf("ENTER") = 2 /\ CountOf("LEAVE") = 1

\* C3: before any frame is evaluated the state is EMPTY, and at every iteration
\* boundary after a frame alert_active is OCCUPIED iff the last evaluated frame holds at
\* least one qualifying detection.
C3_TracksLastFrame ==
    /\ nframes = 0 => ~alert_active
    /\ (AtBoundary /\ nframes > 0) => (alert_active <=> FrameQualifies(results))

C3_Witness ==
    /\ pc = "loop" /\ nframes = 2 /\ ~alert_active
    /\ Events = <<"ENTER", "LEAVE">> /\ results = <<FaintIn>>

\* C4: run side by side with the four-row reference machine on the same frames, the
\* loop is in the same state and has emitted the same events after every frame.
C4_Refinement ==
    AtBoundary =>
        /\ ref.state = (IF alert_active THEN "OCCUPIED" ELSE "EMPTY")
        /\ ref.events = Events

C4_Witness ==
    /\ pc = "done" /\ nframes = 3
    /\ ref.state = "EMPTY" /\ ref.events = <<"ENTER", "LEAVE">>

\* C5: a run of N >= 1 consecutive frames with a non-empty qualifying set that starts in
\* EMPTY has appended exactly one event, an ENTER, whatever the qualifying sets were.
C5_OneEnterPerRun ==
    (AtBoundary /\ run.n >= 1 /\ ~run.from) =>
        /\ Len(log) = run.base + 1
        /\ Kind(log[Len(log)]) = "ENTER"

C5_Witness ==
    /\ AtBoundary /\ run.n = 3 /\ Len(log) = 1
    /\ Len(log[1].objects) # Len(detections_in_zone)

----------------------------------------------------------------------------
(* Zone filter *)

\* the single box of the filter specification, and its pixel coordinates
TheBox == results[1]

Px == Coords(TheBox)

InClosedZone(c) ==
    /\ RED_ZONE.x1 <= c[1] /\ c[1] <= RED_ZONE.x2
    /\ RED_ZONE.y1 <= c[2] /\ c[2] <= RED_ZONE.y2

\* C6: a detection that clears the threshold is appended to detections_in_zone iff its
\* center (cx, cy) has x1 <= cx <= x2 and y1 <= cy <= y2, bounds included; a center at
\* the corner (200,150) qualifies.
C6_InclusiveZone ==
    (pc = "filtered" /\ TheBox.conf >= CONFIDENCE_THRESHOLD) =>
        /\ (Len(detections_in_zone) = 1) <=> InClosedZone(center)
        /\ center = <<200, 150>> => Len(detections_in_zone) = 1
        /\ Len(detections_in_zone) = 1 => detections_in_zone[1].coords = Px

C6_Witness ==
    pc = "filtered" /\ center = <<200, 150>> /\ Len(detections_in_zone) = 1

\* the qualifying boxes of a detector output, by index
QualifyingIndexes(res) == { i \in 1..Len(res) : Qualifies(res[i]) }

\* the frame has detections in the zone, and all of them are below the threshold
OnlyFaintInZone(res) ==
    /\ \E i \in 1..Len(res) : InClosedZone(Center(Coords(res[i])))
    /\ \A i \in 1..Len(res) :
         InClosedZone(Center(Coords(res[i]))) => res[i].conf < CONFIDENCE_THRESHOLD

\* C7 as stated: a frame whose only in-zone detections are below the threshold causes
\* no state change and no event.
C7_Original ==
    [][(FrameStep /\ OnlyFaintInZone(results')) =>
          (alert_active' = alert_active /\ log' = log)]_vars

\* C7 amended: the qualifying set holds exactly the boxes that are in the zone with a
\* confidence at or above the threshold, so boxes below it are excluded wherever they
\* are and a box exactly at it is kept; a frame whose only in-zone detections are below
\* the threshold is evaluated as an empty frame: from EMPTY no state change and no
\* event, from OCCUPIED a LEAVE and the state becomes EMPTY.
C7_Amended ==
    [][FrameStep =>
          /\ Len(detections_in_zone') = Cardinality(QualifyingIndexes(results'))
          /\ (OnlyFaintInZone(results') /\ ~alert_active) =>
                (~alert_active' /\ log' = log /\ snapshots' = snapshots /\ pc' # "crashed")
          /\ (OnlyFaintInZone(results') /\ alert_active /\ pc' # "crashed") =>
                (~alert_active' /\ log' = Append(log, ExitRecord(now')))]_vars

C7_Witness ==
    /\ pc = "loop" /\ nframes = 2 /\ results = <<FaintIn>>
    /\ ~alert_active /\ log = <<>>

\* the center lies on the border of the zone rectangle
OnBorder(c) ==
    \/ (c[1] = RED_ZONE.x1 \/ c[1] = RED_ZONE.x2) /\ RED_ZONE.y1 <= c[2] /\ c[2] <= RED_ZONE.y2
    \/ (c[2] = RED_ZONE.y1 \/ c[2] = RED_ZONE.y2) /\ RED_ZONE.x1 <= c[1] /\ c[1] <= RED_ZONE.x2

\* C8: a detection at or above the threshold whose center lies exactly on an edge of
\* the zone (x = x1, x = x2, y = y1 or y = y2) is in the qualifying set.
C8_BorderIncluded ==
    (pc = "filtered" /\ TheBox.conf >= CONFIDENCE_THRESHOLD /\ OnBorder(center)) =>
        (Len(detections_in_zone) = 1 /\ detections_in_zone[1].coords = Px)

C8_Witness ==
    pc = "filtered" /\ center = <<450, 350>> /\ Len(detections_in_zone) = 1

\* C9 as stated: the center is ((x1+x2)/2, (y1+y2)/2) rounded toward zero on each axis,
\* for every integer box, negative coordinates included.
C9_Original ==
    (pc = "filtered" /\ TheBox.conf >= CONFIDENCE_THRESHOLD) =>
        center = <<TruncDiv2(Px[1] + Px[3]), TruncDiv2(Px[2] + Px[4])>>

\* C9 amended: the center is the midpoint rounded toward minus infinity on each axis
\* (2*cx <= x1+x2 <= 2*cx+1); that is the midpoint rounded toward zero whenever the
\* sum of the two coordinates is not negative.
C9_Amended ==
    (pc = "filtered" /\ TheBox.conf >= CONFIDENCE_THRESHOLD) =>
        /\ 2 * center[1] <= Px[1] + Px[3] /\ Px[1] + Px[3] <= 2 * center[1] + 1
        /\ 2 * center[2] <= Px[2] + Px[4] /\ Px[2] + Px[4] <= 2 * center[2] + 1
        /\ Px[1] + Px[3] >= 0 => center[1] = TruncDiv2(Px[1] + Px[3])
        /\ Px[2] + Px[4] >= 0 => center[2] = TruncDiv2(Px[2] + Px[4])

C9_Witness ==
    pc = "filtered" /\ Px[1] + Px[3] = -3 /\ center = <<-2, 150>>

----------------------------------------------------------------------------
(* Acquisition failure *)

\* C10: the step on which cap.read() fails evaluates no frame, leaves the occupancy
\* state, the log and the snapshots unchanged and leaves the loop; after it no frame is
\* evaluated, no log line or snapshot is written and the state does not change.
C10_AcquisitionFailure ==
    [][/\ (~ReadFailed /\ ReadFailed') =>
            /\ pc = "loop" /\ pc' = "exit"
            /\ nframes' = nframes /\ results' = results
            /\ alert_active' = alert_active /\ object_in_zone' = object_in_zone
            /\ log' = log /\ snapshots' = snapshots
       /\ ReadFailed =>
            /\ pc' \in {"exit", "done"}
            /\ nframes' = nframes
            /\ alert_active' = alert_active
            /\ log' = log /\ snapshots' = snapshots]_vars

C10_Witness ==
    /\ ReadFailed /\ pc = "done" /\ alert_active
    /\ nframes = 2 /\ Events = <<"ENTER">> /\ Len(snapshots) = 1

----------------------------------------------------------------------------
(* Exit paths and errors *)

\* the step ends with an uncaught exception from the detector call
DetectorRaises == console' = Append(console, Line(TracebackDetect, -1))

\* the step evaluates a frame that calls for an event, and the append to the log fails
LogAppendFails == FrameStep /\ (alert_active # FrameQualifies(results')) /\ log' = log

\* C11: the camera handle is released exactly once on every exit path: never while the
\* loop runs, never twice, and once when the script has ended, also when it ended on an
\* error of the detector or of a log write.
C11_ReleasedOnEveryExit ==
    /\ cap_released <= 1
    /\ pc = "loop" => cap_released = 0
    /\ pc \in {"done", "crashed"} => cap_released = 1

\* C12: when the detector call fails, the frame's evaluation is skipped, the occupancy
\* state and the log are unchanged, and the loop goes on with the next frame.
C12_DetectorFailureSkipsFrame ==
    [][DetectorRaises =>
          /\ pc' = "loop"
          /\ alert_active' = alert_active
          /\ log' = log /\ snapshots' = snapshots]_vars

\* C13: when the append of an ENTER or LEAVE line fails, the failure is reported and
\* the loop does not crash: it is still running (or has left through the quit key).
C13_LogFailureDoesNotCrash ==
    [][LogAppendFails => (console' # console /\ pc' \in {"loop", "exit"})]_vars

----------------------------------------------------------------------------
(* Event logger *)

EnterIndexes == { j \in 1..Len(log) : Kind(log[j]) = "ENTER" }

\* the position in the log of the i-th ENTER line
NthEnter(i) == CHOOSE j \in EnterIndexes : Cardinality({ k \in EnterIndexes : k <= j }) = i

FailedSnapshots == { i \in 1..Len(snapshots) : ~snapshots[i].ok }

SavedSnapshots == { i \in 1..Len(snapshots) : snapshots[i].ok }

\* C14: whenever the snapshot write of an ENTER has failed, the ENTER line of that event
\* (the one whose timestamp names the snapshot) is in the log, in this and every later
\* state.
C14_SnapshotFailureKeepsLine ==
    \A i \in FailedSnapshots :
        /\ Cardinality(EnterIndexes) >= i
        /\ log[NthEnter(i)].timestamp[2] = snapshots[i].name

C14_Witness ==
    /\ 1 \in FailedSnapshots /\ Len(log) = 3
    /\ log[1].timestamp[2] = snapshots[1].name

SnapshotReports == { j \in 1..Len(console) : console[j].tag = SnapshotSaved }

\* printed lines that are none of the lines the script or the interpreter prints
OtherReports ==
    { j \in 1..Len(console) :
        console[j].tag \notin {SnapshotSaved, Cleared, "Failed to capture frame.",
                               TracebackDetect, TracebackLog} }

\* C15: every failed snapshot save is reported as an error, and a snapshot is reported
\* as saved only when its save succeeded.
C15_SnapshotFailureReported ==
    /\ Cardinality(SnapshotReports) = Cardinality(SavedSnapshots)
    /\ Cardinality(OtherReports) = Cardinality(FailedSnapshots)


IsPrefix(s, t) == Len(s) <= Len(t) /\ SubSeq(t, 1, Len(s)) = s

\* C16: the log is append-only: every step leaves it unchanged or appends exactly one
\* line at its end, so the log of a state is a prefix of the log of every later state.
C16_AppendOnly ==
    [][\/ log' = log
       \/ (Len(log') = Len(log) + 1 /\ IsPrefix(log, log'))]_vars

C16_Witness ==
    Len(log) = 3 /\ pc = "done" /\ log[1].timestamp # log[3].timestamp


IsEventPrint(line) == line.tag \in {SnapshotSaved, Cleared}

\* the [ALERT] and [CLEARED] lines of the console, in the order they were printed
EventPrints == SelectSeq(console, IsEventPrint)

\* C17: the log holds one line per emitted event, in emission order: its lines match the
\* [ALERT]/[CLEARED] announcements one for one and in order, and every LEAVE line directly follows the ENTER line of the period it ends (so no
\* LEAVE line comes before the first ENTER line).
C17_LogInEmissionOrder ==
    /\ Len(EventPrints) = Len(log)
    /\ \A i \in 1..Len(log) : (EventPrints[i].tag = SnapshotSaved) <=> (Kind(log[i]) = "ENTER")
    /\ \A i \in 1..Len(log) :
         Kind(log[i]) = "LEAVE" => (i > 1 /\ Kind(log[i - 1]) = "ENTER")

C17_Witness ==
    /\ Len(log) = 2 /\ Events = <<"ENTER", "LEAVE">>
    /\ log[1].timestamp[1] < log[2].timestamp[1]


\* the boxes of a detector output that qualify, in detector order
QualifyingBoxes(res) == SelectSeq(res, Qualifies)

\* an object of an ENTER record describes box b: its label, its pixel coordinates and
\* its confidence to the nearest hundredth, and nothing else
Describes(obj, b) ==
    /\ DOMAIN obj = {"name", "confidence", "coords"}
    /\ obj.name = Names[b.cls]
    /\ obj.coords = Coords(b)
    /\ 10 * obj.confidence - b.conf \in -5..5

\* C18: when a frame has taken the state from EMPTY to OCCUPIED, the objects of the
\* ENTER record it appended are exactly the qualifying detections of that frame, in
\* detector order, each with its label, rounded confidence and coordinates.
C18_EnterRecordObjects ==
    (AtBoundary /\ run.n = 1) =>
        /\ Len(log) > 0 /\ Kind(log[Len(log)]) = "ENTER"
        /\ LET objs == log[Len(log)].objects
               q == QualifyingBoxes(results)
           IN  /\ Len(objs) = Len(q)
               /\ \A i \in 1..Len(q) : Describes(objs[i], q[i])

C18_Witness ==
    /\ AtBoundary /\ run.n = 1 /\ nframes = 3 /\ Len(log) = 3
    /\ results = <<BoatCorner, PersonIn>>
    /\ Len(log[1].objects) = 1 /\ log[1].objects[1].name = "person"
    /\ Len(log[3].objects) = 2 /\ log[3].objects[1].name = "boat"


\* the step appends a LEAVE line to the log
EmitsLeave == Len(log') = Len(log) + 1 /\ Kind(log'[Len(log')]) = "LEAVE"

\* C19: the line written by an iteration that emits LEAVE has the event tag and the
\* timestamp and no other field, and that iteration writes no snapshot.
C19_LeaveRecordBare ==
    [][EmitsLeave =>
          /\ DOMAIN log'[Len(log')] = {"event", "timestamp"}
          /\ log'[Len(log')].event = LEFT
          /\ snapshots' = snapshots]_vars

C19_Witness ==
    /\ Len(log) = 2 /\ Kind(log[2]) = "LEAVE" /\ Len(snapshots) = 1
    /\ Len(log[1].objects) = 2 /\ ~alert_active

\* C20: the snapshot writes are as many as the ENTER lines, and the i-th snapshot is
\* named after the hour, minute and second of the i-th ENTER line's timestamp.
C20_SnapshotPerEnter ==
    /\ Len(snapshots) = CountOf("ENTER")
    /\ \A i \in 1..Len(snapshots) :
           \E t \in StartTime..(StartTime + MaxTicks) :
               /\ log[NthEnter(i)].timestamp = StrfFull(t)
               /\ snapshots[i].name = StrfHMS(t)

C20_Witness ==
    /\ Len(snapshots) = 2 /\ FailedSnapshots = {}
    /\ snapshots[1].name = DaySecs - 1 /\ snapshots[2].name = 0
    /\ Events = <<"ENTER", "LEAVE", "ENTER">>


----------------------------------------------------------------------------
(* End of the loop *)

\* the loop has been left through one of its two break statements
LoopExited == pc \in {"exit", "done"}

\* C21: once the loop has been left while alert_active, by the failed read or by the quit
\* key, the last line of the log is an ENTER line: no LEAVE is written at or after the exit.
C21_NoLeaveAtExit ==
    (LoopExited /\ alert_active) =>
        /\ Len(log) > 0
        /\ Kind(log[Len(log)]) = "ENTER"
        /\ CountOf("ENTER") = CountOf("LEAVE") + 1

C21_Witness ==
    /\ pc = "done" /\ alert_active /\ ReadFailed
    /\ Events = <<"ENTER", "LEAVE", "ENTER">>


\* the entry/exit logic of the last frame taken has run to its end: the state, the log
\* and the snapshots are those the frames taken so far call for
Settled ==
    /\ alert_active = FrameQualifies(results)
    /\ Events = ref.events
    /\ Len(snapshots) = CountOf("ENTER")

\* the step evaluates a frame and leaves the loop on the quit key
StopObserved == FrameStep /\ pc' = "exit"

\* C22: the quit key is looked at once the frame's entry/exit logic, log line and
\* snapshot are done, and after the loop has been left no frame is taken and nothing
\* more is logged or saved.
C22_StopAtBoundary ==
    [][/\ StopObserved => Settled'
       /\ LoopExited => (nframes' = nframes /\ log' = log /\ snapshots' = snapshots)]_vars

C22_Witness ==
    /\ pc = "done" /\ ~ReadFailed /\ nframes = 2
    /\ Events = <<"ENTER", "LEAVE">> /\ Len(snapshots) = 1


\* C23: the loop is left only by a failed read or at the end of an evaluated frame on
\* the quit key, and once it has been left the camera is eventually released.
C23_ExitReachesRelease ==
    /\ [][(pc = "loop" /\ pc' = "exit") => (ReadFailed' \/ FrameStep)]_vars
    /\ (pc = "exit") ~> (pc = "done" /\ cap_released = 1)

C23_Witness ==
    /\ pc = "done" /\ cap_released = 1 /\ ~ReadFailed /\ nframes = 3 /\ alert_active


----------------------------------------------------------------------------
(* Zone classification *)

\* what the log shows of the events: kind and object list of each line
LogTrace ==
    [i \in 1..Len(log) |->
        [kind |-> Kind(log[i]),
         objects |-> IF Kind(log[i]) = "ENTER" THEN log[i].objects ELSE <<>>]]

\* C24: the qualifying set of the last frame is the one its boxes alone call for,
\* whatever the occupancy state, the earlier frames and the log; and the events of a run
\* with their object lists, and its occupancy state, are those folded from the sequence
\* of detector outputs alone, so runs fed the same sequence emit the same events.
C24_ClassificationPure ==
    /\ Objects(detections_in_zone) = Classify(results)
    /\ AtBoundary =>
          /\ LogTrace = ref.pure.trace
          /\ alert_active = (ref.pure.state = "OCCUPIED")

C24_Witness ==
    /\ AtBoundary /\ nframes = 3 /\ now = StartTime + 1
    /\ results = <<FaintIn, BoatCorner>>
    /\ Len(ref.pure.trace) = 3 /\ LogTrace = ref.pure.trace
    /\ Cardinality(FailedSnapshots) = 1


----------------------------------------------------------------------------
(* Events per frame *)

\* C25: an iteration that takes a frame writes at most one log line and announces at
\* most one event, so no frame yields both an ENTER and a LEAVE; a step that takes no
\* frame writes none.
C25_OneEventPerFrame ==
    [][/\ FrameStep =>
            /\ Len(log') - Len(log) \in {0, 1}
            /\ Len(EventPrints') - Len(EventPrints) \in {0, 1}
       /\ ~FrameStep => (Len(log') = Len(log) /\ EventPrints' = EventPrints)]_vars

C25_Witness ==
    /\ nframes = 3 /\ Len(log) = 3 /\ Len(EventPrints) = 3 /\ pc = "loop"


----------------------------------------------------------------------------
(* Order of the log line and the snapshot *)

\* the step calls cv2.imwrite
WritesSnapshot == snapshots' # snapshots

\* C26: a step that writes a snapshot has appended the ENTER line of the same instant to
\* the log, and a step whose log append fails writes no snapshot; so the snapshots never
\* outnumber the ENTER lines.
C26_SnapshotAfterLine ==
    [][/\ WritesSnapshot =>
            /\ Len(snapshots') = Len(snapshots) + 1
            /\ Len(log') = Len(log) + 1
            /\ Kind(log'[Len(log')]) = "ENTER"
            /\ log'[Len(log')].timestamp[2] = snapshots'[Len(snapshots')].name
       /\ LogAppendFails => ~WritesSnapshot
       /\ Len(snapshots') <= Cardinality({ i \in 1..Len(log') : Kind(log'[i]) = "ENTER" })]_vars

C26_Witness ==
    /\ pc = "crashed" /\ alert_active /\ FrameQualifies(results)
    /\ Events = <<"ENTER", "LEAVE">> /\ Len(snapshots) = 1
    /\ console[Len(console)].tag = TracebackLog


\* C27: when the log append of a frame fails, by the ENTER append as by the LEAVE append,
\* alert_active keeps the value it had before the frame was evaluated.
C27_StateUnchangedOnLogFailure ==
    [][LogAppendFails => alert_active' = alert_active]_vars


----------------------------------------------------------------------------
(* Camera manager *)

\* C28: any two reconnection attempts that were started, by whichever threads, lie at
\* least reconnect_interval apart.
C28_ReconnectionRateLimited ==
    \A i, j \in 1..Len(attempts) :
        i < j => attempts[j] - attempts[i] >= reconnect_interval

\* C29: once the manager is constructed exactly one of "a handle is stored in
\* cameras['pc_camera']" and "mock_camera_active" holds, and the status request never
\* answers 'offline'.
C29_RealXorMock ==
    /\ (camera_manager.pc_camera # None) # camera_manager.mock_camera_active
    /\ pc_status # "offline"

\* C30: while the generators and reconnection threads run, no handle has had read()
\* called after release(), and none was released twice.
C30_NoUseAfterRelease ==
    Serving =>
        \A h \in 1..Len(handles) :
            /\ ~handles[h].read_after_release
            /\ handles[h].released <= 1

====
